---- MODULE Spec2Model ----
(***************************************************************************)
(* Model of imgCompress.py: a batch image compressor that walks a          *)
(* directory tree and hands every PNG to pngquant (with a quality ladder)  *)
(* and every JPEG to cjpeg, writing either to a mirrored output tree or    *)
(* back over the originals.                                                *)
(*                                                                         *)
(* A file name is a sequence of one-character strings, a path is a         *)
(* sequence of names.  The file system is the pair (files, dirs): files    *)
(* maps the path of each regular file to its content, dirs is the set of   *)
(* directories.  The external tools are opaque: their exit code is chosen  *)
(* nondeterministically, and so is the failure of a file-system call that  *)
(* can raise OSError (at most MaxFaults of them in a run).                 *)
(***************************************************************************)
EXTENDS Integers, Sequences, FiniteSets, TLC

\* ------------------------------------------------------------------ bounds
MaxLadder == 3
MaxFaults == 1

\* --------------------------------------------------------------- file names
N_in         == <<"i", "n">>
N_out        == <<"o", "u", "t">>
N_compressed == <<"c", "o", "m", "p", "r", "e", "s", "s", "e", "d">>
N_tmp        == <<"t", "m", "p">>
N_a          == <<"a">>
N_b          == <<"b">>
N_xPNG       == <<"x", ".", "P", "N", "G">>
N_yjpg       == <<"y", ".", "j", "p", "g">>
N_yJPEG      == <<"y", ".", "J", "p", "e", "g">>
N_tpng       == <<"t", "p", "n", "g">>
N_zpng       == <<"z", ".", "p", "n", "g">>

Digit == <<"1", "2", "3", "4", "5", "6", "7", "8", "9">>

\* tempfile.mkdtemp: the n-th directory it makes has a name of its own
TmpName(n) == <<"d", Digit[n]>>

InputRoot == <<N_in>>
TmpRoot   == <<N_tmp>>
XPath     == <<N_in, N_a, N_xPNG>>
NotesPath == <<N_in, N_a, N_tpng>>
YPath(yname) == <<N_in, N_a, yname>>

\* ------------------------------------------------------------ str methods
LowerChar(c) ==
  CASE c = "P" -> "p"
    [] c = "N" -> "n"
    [] c = "G" -> "g"
    [] c = "J" -> "j"
    [] c = "E" -> "e"
    [] OTHER -> c

Lower(s) == [i \in 1..Len(s) |-> LowerChar(s[i])]

EndsWith(s, suf) ==
  /\ Len(suf) <= Len(s)
  /\ SubSeq(s, Len(s) - Len(suf) + 1, Len(s)) = suf

\* variant: the suffix test without the dot
IsPngNoDot(file) == EndsWith(Lower(file), <<"p", "n", "g">>)

IsPng(file)  == EndsWith(Lower(file), <<".", "p", "n", "g">>)

IsJpeg(file) ==
  \/ EndsWith(Lower(file), <<".", "j", "p", "g">>)
  \/ EndsWith(Lower(file), <<".", "j", "p", "e", "g">>)

\* ------------------------------------------------------------ path methods
Basename(p) == p[Len(p)]
Dirname(p)  == SubSeq(p, 1, Len(p) - 1)
Join(a, b)  == a \o b
IsUnder(p, root) == Len(p) >= Len(root) /\ SubSeq(p, 1, Len(root)) = root
RelativeTo(p, root) == SubSeq(p, Len(root) + 1, Len(p))

\* --------------------------------------------------------------- contents
NoQuality == <<0, 0>>

Raw(d) == [data |-> d, passes |-> 0, q |-> NoQuality, partial |-> FALSE]

\* os.path.getsize
GetSize(c) == IF c.passes = 0 THEN (IF c.data = "E" THEN 0 ELSE 2) ELSE 1

\* what pngquant --quality=q writes when it exits 0
Quantized(c, q) == [c EXCEPT !.passes = @ + 1, !.q = q]

\* what cjpeg -quality 70 writes when it exits 0
JpegQuality == 70
Encoded(c) == [c EXCEPT !.passes = @ + 1, !.q = <<JpegQuality, JpegQuality>>]

\* what cjpeg leaves in its -outfile when it dies after opening it
Truncated(c) == [c EXCEPT !.partial = TRUE]

\* ------------------------------------------------------------- file system
Put(f, p, c) == [x \in (DOMAIN f) \cup {p} |-> IF x = p THEN c ELSE f[x]]
Del(f, S)    == [x \in (DOMAIN f) \ S |-> f[x]]

Prefixes(p) == {SubSeq(p, 1, n) : n \in 1..Len(p)}

\* os.makedirs(d, exist_ok=True)
Makedirs(ds, d) == ds \cup Prefixes(d)

\* variant: the directory is emptied but not removed
RmtreeDirsKeep(ds, d) == {x \in ds : ~IsUnder(x, d) \/ x = d}

\* shutil.rmtree(d)
RmtreeFiles(f, d) == Del(f, {p \in DOMAIN f : IsUnder(p, d)})
RmtreeDirs(ds, d) == {x \in ds : ~IsUnder(x, d)}

\* shutil.move(src, dst) of a regular file onto a file path
Move(f, src, dst) == Del(Put(f, dst, f[src]), {src})

\* ------------------------------------------------------------------- codes
SENTINEL == 99
ExitCodes == {0, SENTINEL, 2}

\* default of quality_ranges: '50-70', '40-60', '30-50'
Quality(i) == <<60 - 10 * i, 80 - 10 * i>>
Ladders == {[i \in 1..n |-> Quality(i)] : n \in 1..MaxLadder}

VARIABLES
  mode, outRoot, pngquantOk, cjpegOk, ladder, unreadable, orig, origDirs,
  files, dirs, pc, exitCode, todo, pending, cur, dest,
  tempRoot, tempDir, tmpCount, rung, attempts, successful_quality,
  last_error, ret, entry, dispatched, invoked, returns, written, faults,
  callee, entryDirs, err, inv

vars == <<mode, outRoot, pngquantOk, cjpegOk, ladder, unreadable, orig,
          origDirs, files, dirs, pc, exitCode, todo, pending, cur, dest,
          tempRoot, tempDir, tmpCount, rung, attempts, successful_quality,
          last_error, ret, entry, dispatched, invoked, returns, written,
          faults, callee, entryDirs, err, inv>>

params == <<mode, outRoot, pngquantOk, cjpegOk, ladder, unreadable, orig,
            origDirs, inv>>

None == <<>>

\* the input tree: in/a/x.PNG, in/a/y.jpg (or y.Jpeg) and in/a/tpng
InitialTree(xdata, yname) ==
  (XPath :> Raw(xdata)) @@ (YPath(yname) :> Raw("Y"))
    @@ (NotesPath :> Raw("T"))

\* what an earlier run has left in the output tree
Stale(root) == (Join(root, <<N_a, N_xPNG>>) :> Raw("O"))

Init ==
  /\ mode \in {"copy", "replace"}
  /\ outRoot \in {<<N_out>>, <<N_in, N_compressed>>}
  /\ mode = "replace" => outRoot = <<N_in, N_compressed>>
  /\ pngquantOk \in BOOLEAN
  /\ cjpegOk \in BOOLEAN
  /\ ladder \in Ladders
  /\ unreadable \in {{}, {XPath}}
  /\ \E xdata \in {"E", "X"}, yname \in {N_yjpg, N_yJPEG}, stale \in BOOLEAN :
       /\ stale => mode = "copy"
       /\ orig = IF stale THEN InitialTree(xdata, yname) @@ Stale(outRoot)
                          ELSE InitialTree(xdata, yname)
       /\ origDirs = IF stale
                       THEN Makedirs({InputRoot, <<N_in, N_a>>, TmpRoot},
                                     Join(outRoot, <<N_a>>))
                       ELSE {InputRoot, <<N_in, N_a>>, TmpRoot}
  /\ files = orig
  /\ dirs = origDirs
  /\ pc = "main"
  /\ exitCode = -1
  /\ todo = <<>>
  /\ pending = {}
  /\ cur = None
  /\ dest = None
  /\ tempRoot = None
  /\ tempDir = None
  /\ tmpCount = 0
  /\ rung = 0
  /\ attempts = <<>>
  /\ successful_quality = None
  /\ last_error = 0
  /\ ret = FALSE
  /\ entry = files
  /\ dispatched = <<>>
  /\ invoked = {}
  /\ returns = <<>>
  /\ written = {}
  /\ faults = 0
  /\ callee = ""
  /\ entryDirs = dirs
  /\ err = ""
  /\ inv = <<>>

fsv   == <<files, dirs>>
walkv == <<todo, pending>>
callv == <<cur, dest, callee, entryDirs>>
retv  == <<ret, err>>
pngv  == <<rung, attempts, successful_quality, last_error>>
tmpv  == <<tempRoot, tempDir, tmpCount>>
logv  == <<entry, dispatched, invoked, returns, written>>

Perms(S) ==
  {s \in [1..Cardinality(S) -> S] :
     \A i, j \in 1..Cardinality(S) : i # j => s[i] # s[j]}

\* an OSError may be injected into a file-system call
MayFault == faults < MaxFaults

\* ------------------------------------------------------- check_dependencies
\* variant: only pngquant is probed
MissingToolsPngOnly(pq, cj) == IF pq THEN {} ELSE {"pngquant"}

MissingTools(pq, cj) ==
  (IF pq THEN {} ELSE {"pngquant"}) \cup (IF cj THEN {} ELSE {"cjpeg (mozjpeg)"})

check_dependencies(pq, cj) == MissingTools(pq, cj) = {}

\* main: the dependency check, then sys.exit(1) or process_directory
Main ==
  /\ pc = "main"
  /\ IF check_dependencies(pngquantOk, cjpegOk)
       THEN pc' = "process" /\ exitCode' = exitCode
       ELSE pc' = "exit" /\ exitCode' = 1
  /\ UNCHANGED <<params, fsv, walkv, callv, pngv, tmpv, logv, retv, faults>>

\* --------------------------------------------------------- process_directory
\* variant: the relative directory is dropped
OutputFileFlat(base, input_file) == Join(base, <<Basename(input_file)>>)

\* the path handed to the compressor as output_path
OutputFile(base, input_file) == Join(base, RelativeTo(input_file, InputRoot))

\* variant: the move is made whatever the compressor returned
ReplaceOriginalAlways(r) == TRUE

\* replace mode moves the result over the original when the compressor
\* returned True
ReplaceOriginal(r) == r

\* entry of process_directory: TemporaryDirectory() or output_path.mkdir
ProcessDirectory ==
  /\ pc = "process"
  /\ IF mode = "replace"
       THEN /\ tmpCount' = tmpCount + 1
            /\ tempRoot' = <<N_tmp, TmpName(tmpCount + 1)>>
            /\ dirs' = dirs \cup {<<N_tmp, TmpName(tmpCount + 1)>>}
       ELSE /\ dirs' = Makedirs(dirs, outRoot)
            /\ UNCHANGED <<tempRoot, tmpCount>>
  /\ todo' = <<InputRoot>>
  /\ pc' = "walk"
  /\ UNCHANGED <<params, files, pending, callv, pngv, tempDir, logv, retv,
                 exitCode, faults>>

\* os.walk, top-down: list the next directory, queue its subdirectories
WalkDir ==
  /\ pc = "walk"
  /\ pending = {}
  /\ todo # <<>>
  /\ LET d == Head(todo)
         subdirs == {x \in dirs : Len(x) = Len(d) + 1 /\ Dirname(x) = d}
     IN /\ pending' = {p \in DOMAIN files : Dirname(p) = d}
        /\ \E order \in Perms(subdirs) : todo' = order \o Tail(todo)
  /\ UNCHANGED <<params, fsv, callv, pngv, tmpv, logv, retv, pc, exitCode,
                 faults>>

Base == IF mode = "replace" THEN tempRoot ELSE outRoot

\* a file with a .png name goes to compress_png
DispatchPng ==
  /\ pc = "walk"
  /\ \E f \in pending :
       /\ IsPng(Basename(f))
       /\ pending' = pending \ {f}
       /\ cur' = f
       /\ dest' = OutputFile(Base, f)
       /\ dispatched' = Append(dispatched, f)
  /\ entry' = files
  /\ entryDirs' = dirs
  /\ callee' = "png"
  /\ err' = ""
  /\ rung' = 1
  /\ attempts' = <<>>
  /\ successful_quality' = None
  /\ last_error' = 0
  /\ pc' = "png_enter"
  /\ UNCHANGED <<params, fsv, todo, tmpv, invoked, returns, written, ret,
                 exitCode, faults>>

\* a file with a .jpg or .jpeg name goes to compress_jpeg
DispatchJpeg ==
  /\ pc = "walk"
  /\ \E f \in pending :
       /\ ~IsPng(Basename(f))
       /\ IsJpeg(Basename(f))
       /\ pending' = pending \ {f}
       /\ cur' = f
       /\ dest' = OutputFile(Base, f)
       /\ dispatched' = Append(dispatched, f)
  /\ entry' = files
  /\ entryDirs' = dirs
  /\ callee' = "jpeg"
  /\ err' = ""
  /\ pc' = "jpg_makedirs"
  /\ UNCHANGED <<params, fsv, todo, pngv, tmpv, invoked, returns, written,
                 ret, exitCode, faults>>

\* any other file is passed over
SkipFile ==
  /\ pc = "walk"
  /\ \E f \in pending :
       /\ ~IsPng(Basename(f))
       /\ ~IsJpeg(Basename(f))
       /\ pending' = pending \ {f}
  /\ UNCHANGED <<params, fsv, todo, callv, pngv, tmpv, logv, retv, pc,
                 exitCode, faults>>

\* an exception leaves process_directory: the with-block removes the
\* TemporaryDirectory, the interpreter exits with status 1
Crash ==
  /\ pc' = "crashed"
  /\ exitCode' = 1
  /\ files' = IF mode = "replace" THEN RmtreeFiles(files, tempRoot) ELSE files
  /\ dirs' = IF mode = "replace" THEN RmtreeDirs(dirs, tempRoot) ELSE dirs

\* the compressor has returned to the loop body of process_directory
Return ==
  /\ pc = "returned"
  /\ pc' = IF mode = "replace" /\ ReplaceOriginal(ret) THEN "rep_move"
           ELSE "walk"
  /\ returns' = Append(returns, [input |-> cur, ok |-> ret])
  /\ UNCHANGED <<params, fsv, walkv, callv, pngv, tmpv, entry, dispatched,
                 invoked, written, retv, exitCode, faults>>

\* shutil.move(temp_file, input_file)
ReplaceMove ==
  /\ pc = "rep_move"
  /\ \/ /\ dest \in DOMAIN files
        /\ files' = Move(files, dest, cur)
        /\ written' = written \cup {[path |-> cur, input |-> cur]}
        /\ pc' = "walk"
        /\ UNCHANGED <<dirs, exitCode, faults>>
     \/ /\ dest \notin DOMAIN files \/ MayFault
        /\ faults' = IF dest \in DOMAIN files THEN faults + 1 ELSE faults
        /\ written' = written
        /\ Crash
  /\ UNCHANGED <<params, walkv, callv, pngv, tmpv, entry, dispatched, invoked,
                 returns, retv>>

\* both loops are over: leave the with-block, return to main
WalkDone ==
  /\ pc = "walk"
  /\ pending = {}
  /\ todo = <<>>
  /\ files' = IF mode = "replace" THEN RmtreeFiles(files, tempRoot) ELSE files
  /\ dirs' = IF mode = "replace" THEN RmtreeDirs(dirs, tempRoot) ELSE dirs
  /\ pc' = "done"
  /\ exitCode' = 0
  /\ UNCHANGED <<params, walkv, callv, pngv, tmpv, logv, retv, faults>>

\* ---------------------------------------------------------------- compress_png
\* variant: the staging file is put straight into the system temp directory
TempOutputShared(temp_dir, output_path) ==
  Join(TmpRoot, <<Basename(output_path)>>)

\* os.path.join(temp_dir, os.path.basename(output_path))
TempOutput(temp_dir, output_path) == Join(temp_dir, <<Basename(output_path)>>)

temp_output == TempOutput(tempDir, dest)

\* variant: the os.access check is left out
PreconditionsNoAccess(f, input_path) ==
  /\ input_path \in DOMAIN f
  /\ IsPng(Basename(input_path))

\* the three precondition checks of compress_png
Preconditions(f, input_path) ==
  /\ input_path \in DOMAIN f
  /\ IsPng(Basename(input_path))
  /\ input_path \notin unreadable

\* variant: every non-zero exit code sends the loop to the next rung
RungOutcomeLenient(code) == IF code = 0 THEN "break" ELSE "continue"

\* how the loop over quality_ranges reads the tool's exit code
RungOutcome(code) ==
  IF code = 0 THEN "break"
  ELSE IF code = SENTINEL THEN "continue"
  ELSE "raise"

\* variant: the loop steps over a rung
NextRungSkip(r) == r + 2

\* the quality the for loop takes after rung r
NextRung(r) == r + 1

\* the message compress_png logs when a precondition fails
PreconditionError(f, input_path) ==
  IF input_path \notin DOMAIN f THEN "input_missing"
  ELSE IF ~IsPng(Basename(input_path)) THEN "not_png"
  ELSE IF input_path \in unreadable THEN "unreadable"
  ELSE ""

\* the precondition checks, then tempfile.mkdtemp
PngEnter ==
  /\ pc = "png_enter"
  /\ IF Preconditions(files, cur)
       THEN /\ tmpCount' = tmpCount + 1
            /\ tempDir' = <<N_tmp, TmpName(tmpCount + 1)>>
            /\ dirs' = dirs \cup {<<N_tmp, TmpName(tmpCount + 1)>>}
            /\ pc' = "png_loop"
            /\ UNCHANGED retv
       ELSE /\ ret' = FALSE
            /\ err' = PreconditionError(files, cur)
            /\ pc' = "returned"
            /\ UNCHANGED <<tmpCount, tempDir, dirs>>
  /\ UNCHANGED <<params, files, walkv, callv, pngv, tempRoot, logv, exitCode,
                 faults>>

\* one iteration of the loop: one run of pngquant at quality ladder[rung]
PngRung ==
  /\ pc = "png_loop"
  /\ \E code \in ExitCodes, wrote \in BOOLEAN :
       /\ attempts' = Append(attempts, [rung |-> rung, quality |-> ladder[rung],
                                        code |-> code])
       /\ invoked' = invoked \cup {[tool |-> "pngquant", input |-> cur]}
       /\ CASE RungOutcome(code) = "break" ->
                 /\ files' = IF wrote
                               THEN Put(files, temp_output,
                                        Quantized(files[cur], ladder[rung]))
                               ELSE files
                 /\ written' = IF wrote
                                 THEN written \cup {[path |-> temp_output,
                                                     input |-> cur]}
                                 ELSE written
                 /\ successful_quality' = ladder[rung]
                 /\ pc' = "png_check"
                 /\ UNCHANGED <<rung, last_error, retv>>
            [] RungOutcome(code) = "continue" ->
                 /\ wrote = FALSE
                 /\ last_error' = code
                 /\ IF NextRung(rung) <= Len(ladder)
                      THEN rung' = NextRung(rung) /\ pc' = pc
                      ELSE rung' = rung /\ pc' = "png_else"
                 /\ UNCHANGED <<files, written, successful_quality, retv>>
            [] OTHER ->
                 /\ wrote = FALSE
                 /\ last_error' = code
                 /\ ret' = FALSE
                 /\ err' = "tool_failed"
                 /\ pc' = "png_finally"
                 /\ UNCHANGED <<files, written, rung, successful_quality>>
  /\ UNCHANGED <<params, dirs, walkv, callv, tmpv, entry, dispatched, returns,
                 exitCode, faults>>

\* the else clause of the loop: shutil.copy2 of the source, or raise
PngElse ==
  /\ pc = "png_else"
  /\ IF last_error = SENTINEL
       THEN \/ /\ files' = Put(files, temp_output, files[cur])
               /\ written' = written \cup {[path |-> temp_output,
                                             input |-> cur]}
               /\ pc' = "png_check"
               /\ UNCHANGED <<retv, faults>>
            \/ /\ MayFault
               /\ faults' = faults + 1
               /\ ret' = FALSE
               /\ err' = "unknown"
               /\ pc' = "png_finally"
               /\ UNCHANGED <<files, written>>
       ELSE /\ ret' = FALSE
            /\ err' = "tool_failed"
            /\ pc' = "png_finally"
            /\ UNCHANGED <<files, written, faults>>
  /\ UNCHANGED <<params, dirs, walkv, callv, pngv, tmpv, entry, dispatched,
                 invoked, returns, exitCode>>

\* variant: the staging file is taken to be there
OutputProducedAlways(f, path) == TRUE

\* os.path.exists(temp_output)
OutputProduced(f, path) == path \in DOMAIN f

\* the check that the staging file was created
PngCheck ==
  /\ pc = "png_check"
  /\ IF OutputProduced(files, temp_output)
       THEN pc' = "png_makedirs" /\ UNCHANGED retv
       ELSE pc' = "png_finally" /\ ret' = FALSE
                                /\ err' = "output_not_produced"
  /\ UNCHANGED <<params, fsv, walkv, callv, pngv, tmpv, logv, exitCode,
                 faults>>

\* os.makedirs(output_dir, exist_ok=True)
PngMakedirs ==
  /\ pc = "png_makedirs"
  /\ \/ /\ dirs' = Makedirs(dirs, Dirname(dest))
        /\ pc' = "png_move"
        /\ UNCHANGED <<retv, faults>>
     \/ /\ MayFault
        /\ faults' = faults + 1
        /\ ret' = FALSE
        /\ err' = "unknown"
        /\ pc' = "png_finally"
        /\ dirs' = dirs
  /\ UNCHANGED <<params, files, walkv, callv, pngv, tmpv, logv, exitCode>>

\* shutil.move(temp_output, output_path)
PngMove ==
  /\ pc = "png_move"
  /\ \/ /\ temp_output \in DOMAIN files
        /\ files' = Move(files, temp_output, dest)
        /\ written' = written \cup {[path |-> dest, input |-> cur]}
        /\ pc' = "png_size"
        /\ UNCHANGED <<retv, faults>>
     \/ /\ temp_output \notin DOMAIN files \/ MayFault
        /\ faults' = IF temp_output \in DOMAIN files THEN faults + 1
                      ELSE faults
        /\ ret' = FALSE
        /\ err' = "unknown"
        /\ pc' = "png_finally"
        /\ UNCHANGED <<files, written>>
  /\ UNCHANGED <<params, dirs, walkv, callv, pngv, tmpv, entry, dispatched,
                 invoked, returns, exitCode>>

\* the sizes and the compression ratio, then return True
PngSize ==
  /\ pc = "png_size"
  /\ LET input_size == GetSize(files[cur])
     IN /\ ret' = (input_size # 0)
        /\ err' = IF input_size = 0 THEN "unknown" ELSE err
  /\ pc' = "png_finally"
  /\ UNCHANGED <<params, fsv, walkv, callv, pngv, tmpv, logv, exitCode,
                 faults>>

\* the finally clause: shutil.rmtree(temp_dir)
PngFinally ==
  /\ pc = "png_finally"
  /\ files' = RmtreeFiles(files, tempDir)
  /\ dirs' = RmtreeDirs(dirs, tempDir)
  /\ pc' = "returned"
  /\ UNCHANGED <<params, walkv, callv, pngv, tmpv, logv, retv, exitCode,
                 faults>>

\* --------------------------------------------------------------- compress_jpeg
\* os.makedirs(os.path.dirname(output_path), exist_ok=True); its OSError is
\* not caught by compress_jpeg
JpegMakedirs ==
  /\ pc = "jpg_makedirs"
  /\ \/ /\ dirs' = Makedirs(dirs, Dirname(dest))
        /\ pc' = "jpg_run"
        /\ UNCHANGED <<files, returns, exitCode, faults>>
     \/ /\ MayFault
        /\ faults' = faults + 1
        /\ returns' = Append(returns, [input |-> cur, ok |-> FALSE])
        /\ Crash
  /\ UNCHANGED <<params, walkv, callv, pngv, tmpv, entry, dispatched, invoked,
                 written, retv>>

\* one run of cjpeg with -outfile output_path
JpegRun ==
  /\ pc = "jpg_run"
  /\ \E code \in {0, 1}, opened \in BOOLEAN :
       /\ invoked' = invoked \cup {[tool |-> "cjpeg", input |-> cur]}
       /\ IF code = 0
            THEN /\ opened
                 /\ files' = Put(files, dest, Encoded(files[cur]))
                 /\ ret' = TRUE
                 /\ err' = ""
            ELSE /\ files' = IF opened
                               THEN Put(files, dest,
                                        Truncated(Encoded(files[cur])))
                               ELSE files
                 /\ ret' = FALSE
                 /\ err' = "jpeg_failed"
       /\ written' = IF opened
                       THEN written \cup {[path |-> dest, input |-> cur]}
                       ELSE written
  /\ pc' = "returned"
  /\ UNCHANGED <<params, dirs, walkv, callv, pngv, tmpv, entry, dispatched,
                 returns, exitCode, faults>>

Next ==
  \/ Main
  \/ ProcessDirectory
  \/ WalkDir
  \/ DispatchPng
  \/ DispatchJpeg
  \/ SkipFile
  \/ Return
  \/ ReplaceMove
  \/ WalkDone
  \/ PngEnter
  \/ PngRung
  \/ PngElse
  \/ PngCheck
  \/ PngMakedirs
  \/ PngMove
  \/ PngSize
  \/ PngFinally
  \/ JpegMakedirs
  \/ JpegRun

Spec == Init /\ [][Next]_vars

\* ------------------------------------------------- compress_png on its own
ZPath == <<N_in, N_a, N_zpng>>

\* one call compress_png(input_path, output_path, quality_ranges): the source
\* exists or not, has a .png name or not, is readable or not
InitPng ==
  /\ mode = "copy"
  /\ outRoot = <<N_out>>
  /\ pngquantOk = TRUE
  /\ cjpegOk = TRUE
  /\ ladder \in Ladders
  /\ \E xdata \in {"E", "X"}, stale \in BOOLEAN :
       /\ orig = IF stale THEN InitialTree(xdata, N_yjpg) @@ Stale(outRoot)
                          ELSE InitialTree(xdata, N_yjpg)
       /\ origDirs = IF stale
                       THEN Makedirs({InputRoot, <<N_in, N_a>>, TmpRoot},
                                     Join(outRoot, <<N_a>>))
                       ELSE {InputRoot, <<N_in, N_a>>, TmpRoot, outRoot}
  /\ cur \in {XPath, NotesPath, ZPath}
  /\ unreadable \in {{}, {cur} \cap DOMAIN orig}
  /\ dest = Join(outRoot, <<N_a, N_xPNG>>)
  /\ files = orig
  /\ dirs = origDirs
  /\ pc = "png_enter"
  /\ exitCode = -1
  /\ todo = <<>>
  /\ pending = {}
  /\ tempRoot = None
  /\ tempDir = None
  /\ tmpCount = 0
  /\ rung = 1
  /\ attempts = <<>>
  /\ successful_quality = None
  /\ last_error = 0
  /\ ret = FALSE
  /\ entry = files
  /\ dispatched = <<>>
  /\ invoked = {}
  /\ returns = <<>>
  /\ written = {}
  /\ faults = 0
  /\ callee = "png"
  /\ entryDirs = dirs
  /\ err = ""
  /\ inv = <<>>

NextPng ==
  \/ PngEnter
  \/ PngRung
  \/ PngElse
  \/ PngCheck
  \/ PngMakedirs
  \/ PngMove
  \/ PngSize
  \/ PngFinally

SpecPng == InitPng /\ [][NextPng]_vars

TypeOK ==
  /\ pc \in {"main", "exit", "process", "walk", "png_enter", "png_loop",
             "png_else", "png_check", "png_makedirs", "png_move", "png_size",
             "png_finally", "jpg_makedirs", "jpg_run", "returned", "rep_move",
             "done", "crashed"}
  /\ dirs \subseteq Seq(Seq(STRING))
  /\ faults \in 0..MaxFaults

\* ------------------------------------------------------------------ claims
\* compress_png is past its loop over quality_ranges
LoopOver ==
  pc \in {"png_else", "png_check", "png_makedirs", "png_move", "png_size",
          "png_finally"}

InPng == pc = "png_loop" \/ LoopOver

\* the last compressor called was compress_png and it has come back
PngReturned == pc = "returned" /\ IsPng(Basename(cur)) /\ attempts # <<>>

AllSentinel ==
  /\ Len(attempts) = Len(ladder)
  /\ \A k \in 1..Len(attempts) : attempts[k].code = SENTINEL

Fatal ==
  /\ attempts # <<>>
  /\ attempts[Len(attempts)].code \notin {0, SENTINEL}

\* C1: the rungs of the ladder are attempted in ladder order, each at most
\* once; rung k is attempted if and only if every rung before it exited 99;
\* the first rung that exits 0 is the last one attempted and its quality is
\* the one recorded as used.
C1_LadderOrder ==
  /\ Len(attempts) <= Len(ladder)
  /\ \A k \in 1..Len(attempts) :
       /\ attempts[k].rung = k
       /\ attempts[k].quality = ladder[k]
       /\ \A j \in 1..(k - 1) : attempts[j].code = SENTINEL
       /\ attempts[k].code = 0 =>
            /\ k = Len(attempts)
            /\ (LoopOver \/ PngReturned) => successful_quality = ladder[k]
  /\ (LoopOver \/ PngReturned) =>
       /\ \A k \in 1..Len(ladder) :
            (\A j \in 1..(k - 1) :
               j <= Len(attempts) /\ attempts[j].code = SENTINEL)
              => k <= Len(attempts)
       /\ successful_quality # None =>
            /\ attempts[Len(attempts)].code = 0
            /\ successful_quality = attempts[Len(attempts)].quality

\* the second rung succeeded after the first exited 99
C1_Witness ==
  /\ pc = "png_check"
  /\ Len(ladder) = 3
  /\ Len(attempts) = 2
  /\ attempts[1].code = SENTINEL
  /\ attempts[2].code = 0
  /\ successful_quality = ladder[2]

\* C2: when every rung exits 99 (and no file-system call fails), compress_png
\* returns True with no quality recorded and output_path holds the bytes of
\* the source.
C2_PassThroughSucceeds ==
  (PngReturned /\ AllSentinel /\ faults = 0) =>
    /\ ret = TRUE
    /\ successful_quality = None
    /\ dest \in DOMAIN files
    /\ files[dest] = entry[cur]

\* C3: a rung that exits with a code other than 0 and 99 is the last rung
\* invoked; no pass-through copy is made, compress_png returns False and
\* output_path is neither created nor changed.
C3_FatalExit ==
  /\ \A k \in 1..Len(attempts) :
       attempts[k].code \notin {0, SENTINEL} => k = Len(attempts)
  /\ (Fatal /\ InPng) =>
       /\ pc = "png_finally"
       /\ temp_output \notin DOMAIN files
  /\ (Fatal /\ (InPng \/ PngReturned)) =>
       /\ ret = FALSE
       /\ (dest \in DOMAIN files) = (dest \in DOMAIN entry)
       /\ dest \in DOMAIN files => files[dest] = entry[dest]
       /\ \A w \in written : w.input # cur

\* the second rung exited 2 after the first exited 99, over a file an
\* earlier run had left at output_path
C3_Witness ==
  /\ PngReturned
  /\ Len(attempts) = 2
  /\ attempts[1].code = SENTINEL
  /\ attempts[2].code = 2
  /\ ret = FALSE
  /\ dest \in DOMAIN files

Range(seq) == {seq[i] : i \in 1..Len(seq)}

\* the image files the walk is to find under the input root
InputImages ==
  {p \in DOMAIN orig : IsUnder(p, InputRoot) /\ p # NotesPath}

\* C4: in replace mode a file under the input root changes only in the move
\* that follows its own compressor's return of True, and every file whose
\* compressor returned False or raised still holds its original bytes.
C4_ReplaceSafety ==
  [][mode = "replace" =>
       /\ \A p \in DOMAIN orig :
            (p \notin DOMAIN files' \/ files'[p] # files[p]) =>
              (pc = "rep_move" /\ cur = p /\ ret = TRUE)
       /\ \A i \in 1..Len(returns') :
            ~returns'[i].ok =>
              /\ returns'[i].input \in DOMAIN files'
              /\ files'[returns'[i].input] = orig[returns'[i].input]]_vars

\* a replace run is over in which one file failed and another was replaced
C4_Witness ==
  /\ mode = "replace"
  /\ pc = "done"
  /\ \E i, j \in 1..Len(returns) :
       /\ ~returns[i].ok
       /\ files[returns[i].input] = orig[returns[i].input]
       /\ returns[j].ok
       /\ files[returns[j].input] # orig[returns[j].input]

\* C5: whatever happens to one file, when the run is over every image file
\* under the input root has been dispatched to its compressor.
C5_WalkNeverAborts ==
  pc \in {"done", "crashed"} => InputImages \subseteq Range(dispatched)

C7_NoPartialDestination ==
  \A p \in DOMAIN files : ~IsUnder(p, TmpRoot) => ~files[p].partial

\* where the result for the image input_root/rel belongs
Mirror(input) ==
  Join(IF mode = "copy" THEN outRoot ELSE InputRoot,
       SubSeq(input, Len(InputRoot) + 1, Len(input)))

Changed(p) ==
  \/ (p \in DOMAIN files) # (p \in DOMAIN orig)
  \/ p \in DOMAIN files /\ p \in DOMAIN orig /\ files[p] # orig[p]

\* C8: outside the temporary directories the run writes the result for
\* input_root/rel at output_root/rel (copy) or input_root/rel (replace) and
\* nowhere else, and after a successful compression the result is there.
C8_RelativePaths ==
  /\ \A w \in written :
       ~IsUnder(w.path, TmpRoot) => w.path = Mirror(w.input)
  /\ \A p \in (DOMAIN files) \cup (DOMAIN orig) :
       (Changed(p) /\ ~IsUnder(p, TmpRoot)) => \E w \in written : w.path = p
  /\ \A i \in 1..Len(returns) :
       (returns[i].ok /\ ~(mode = "replace" /\ i = Len(returns)
                           /\ pc \in {"rep_move", "crashed"})) =>
         /\ [path |-> Mirror(returns[i].input), input |-> returns[i].input]
              \in written
         /\ Mirror(returns[i].input) \in DOMAIN files

\* a copy run is over with both images written below the output root
C8_Witness ==
  /\ mode = "copy"
  /\ pc = "done"
  /\ Len(returns) >= 2
  /\ \A i \in 1..Len(returns) : returns[i].ok
  /\ Join(outRoot, <<N_a, N_xPNG>>) \in DOMAIN files
  /\ files[Join(outRoot, <<N_a, N_xPNG>>)].data = "X"

\* C9: no compressor is invoked for in/a/tpng, nothing is written for it,
\* copy mode creates no output_root/a/tpng and its bytes stay as they were.
C9_NonImagesUntouched ==
  /\ NotesPath \notin Range(dispatched)
  /\ \A r \in invoked : r.input # NotesPath
  /\ \A w \in written : w.input # NotesPath /\ w.path # NotesPath
  /\ \A p \in DOMAIN files : Basename(p) = N_tpng => p = NotesPath
  /\ NotesPath \in DOMAIN files
  /\ files[NotesPath] = orig[NotesPath]

\* a run is over that compressed both images and passed over in/a/tpng
C9_Witness ==
  /\ pc = "done"
  /\ Len(dispatched) >= 2
  /\ \E i \in 1..Len(returns) : returns[i].ok
  /\ NotesPath \notin pending

\* C10: with either binary missing the run exits non-zero without creating
\* a directory, invoking a compressor or touching a file.
C10_AbortBeforeWork ==
  (~pngquantOk \/ ~cjpegOk) =>
    /\ pc \in {"main", "exit"}
    /\ pc = "exit" => exitCode # 0
    /\ files = orig
    /\ dirs = origDirs
    /\ dispatched = <<>>
    /\ invoked = {}
    /\ written = {}

\* only cjpeg is missing and the run has exited
C10_Witness ==
  /\ pngquantOk
  /\ ~cjpegOk
  /\ pc = "exit"
  /\ exitCode = 1

\* compress_png is running or has just returned
PngCall ==
  /\ callee = "png"
  /\ pc \in {"png_enter", "png_loop", "png_else", "png_check", "png_makedirs",
             "png_move", "png_size", "png_finally", "returned"}

\* the precondition of compress_png that the source fails first, if any
FailedCheck ==
  IF cur \notin DOMAIN entry THEN "input_missing"
  ELSE IF ~EndsWith(Lower(Basename(cur)), <<".", "p", "n", "g">>)
    THEN "not_png"
  ELSE IF cur \in unreadable THEN "unreadable"
  ELSE ""

\* C11: when the source is missing, has no .png name or is unreadable,
\* compress_png returns False with the message of the first failed check and
\* has made no staging directory, run no tool and left every file and
\* directory, output_path included, as it was.
C11_PreconditionsFirst ==
  (PngCall /\ FailedCheck # "") =>
    /\ pc \in {"png_enter", "returned"}
    /\ attempts = <<>>
    /\ \A r \in invoked : r.input # cur
    /\ files = entry
    /\ dirs = entryDirs
    /\ pc = "returned" => (ret = FALSE /\ err = FailedCheck)

\* an existing, readable file without a .png name was refused
C11_Witness ==
  /\ PngCall
  /\ pc = "returned"
  /\ cur = NotesPath
  /\ unreadable = {}
  /\ err = "not_png"
  /\ ret = FALSE
  /\ dest \notin DOMAIN files

\* the last rung exited 0 and pngquant wrote no staging file
SilentNoOp ==
  /\ PngCall
  /\ attempts # <<>>
  /\ attempts[Len(attempts)].code = 0
  /\ \A w \in written : w.input # cur

\* C12: when a rung exited 0 but the staging file is absent, compress_png
\* returns False with the output-not-produced message, creates no directory
\* for output_path and leaves output_path as it was.
C12_OutputNotProduced ==
  SilentNoOp =>
    /\ pc \in {"png_check", "png_finally", "returned"}
    /\ pc # "png_check" => (ret = FALSE /\ err = "output_not_produced")
    /\ dirs \ {tempDir} = entryDirs
    /\ {p \in DOMAIN files : ~IsUnder(p, tempDir)} = DOMAIN entry
    /\ \A p \in DOMAIN entry : files[p] = entry[p]

\* the second rung exited 0 without output and compress_png has returned
C12_Witness ==
  /\ SilentNoOp
  /\ pc = "returned"
  /\ Len(attempts) = 2
  /\ err = "output_not_produced"
  /\ Dirname(dest) \notin dirs

\* C13: in copy mode every file handed to a compressor was under the input
\* root when the run started (no output of the run is found by the walk and
\* compressed again), and no file is handed to a compressor twice.
C13_NoRediscovery ==
  mode = "copy" =>
    /\ \A i \in 1..Len(dispatched) : dispatched[i] \in DOMAIN orig
    /\ \A i, j \in 1..Len(dispatched) :
         dispatched[i] = dispatched[j] => i = j

\* C14: compress_png returns True if and only if it moved the staged file to
\* output_path, and when it returns False output_path is as it was.
C14_OutcomeMatchesFiles ==
  (callee = "png" /\ pc = "returned") =>
    /\ ret = ([path |-> dest, input |-> cur] \in written)
    /\ ~ret =>
         /\ (dest \in DOMAIN files) = (dest \in DOMAIN entry)
         /\ dest \in DOMAIN files => files[dest] = entry[dest]

\* ------------------------------------------------ the per-file work, interleaved
\* The body of the loop of process_directory, run for several files at once:
\* each file is one invocation with its own position, staging directory and
\* result; the file system, the TemporaryDirectory of replace mode and
\* tempfile.mkdtemp are shared.
BPath == <<N_in, N_b, N_xPNG>>

Workers == {XPath, BPath, YPath(N_yjpg)}

ParTree ==
  (XPath :> Raw("X")) @@ (BPath :> Raw("B")) @@ (YPath(N_yjpg) :> Raw("Y"))

parFrame ==
  <<mode, outRoot, pngquantOk, cjpegOk, ladder, unreadable, orig, origDirs,
    pc, exitCode, walkv, callv, pngv, tempRoot, tempDir, retv, entry,
    dispatched, invoked, returns, faults>>

InitPar ==
  /\ mode \in {"copy", "replace"}
  /\ outRoot = <<N_out>>
  /\ pngquantOk = TRUE
  /\ cjpegOk = TRUE
  /\ ladder \in Ladders
  /\ unreadable = {}
  /\ orig = ParTree
  /\ origDirs = {InputRoot, <<N_in, N_a>>, <<N_in, N_b>>, TmpRoot}
  /\ files = orig
  /\ tmpCount = IF mode = "replace" THEN 1 ELSE 0
  /\ tempRoot = IF mode = "replace" THEN <<N_tmp, TmpName(1)>> ELSE None
  /\ dirs = IF mode = "replace" THEN origDirs \cup {<<N_tmp, TmpName(1)>>}
            ELSE Makedirs(origDirs, outRoot)
  /\ pc = "walk"
  /\ exitCode = -1
  /\ todo = <<>>
  /\ pending = {}
  /\ cur = None
  /\ dest = None
  /\ tempDir = None
  /\ rung = 0
  /\ attempts = <<>>
  /\ successful_quality = None
  /\ last_error = 0
  /\ ret = FALSE
  /\ entry = files
  /\ dispatched = <<>>
  /\ invoked = {}
  /\ returns = <<>>
  /\ written = {}
  /\ faults = 0
  /\ callee = ""
  /\ entryDirs = dirs
  /\ err = ""
  /\ inv = [w \in Workers |->
              [pc |-> "idle", dest |-> None, tempDir |-> None,
               stage |-> None, ok |-> FALSE]]

\* compress_png is entered for w: the output path, then tempfile.mkdtemp
ParStartPng ==
  \E w \in Workers :
    /\ inv[w].pc = "idle"
    /\ IsPng(Basename(w))
    /\ tmpCount' = tmpCount + 1
    /\ dirs' = dirs \cup {<<N_tmp, TmpName(tmpCount + 1)>>}
    /\ inv' = [inv EXCEPT ![w] =
                 [@ EXCEPT !.pc = "png_loop",
                           !.dest = OutputFile(Base, w),
                           !.tempDir = <<N_tmp, TmpName(tmpCount + 1)>>]]
    /\ UNCHANGED <<parFrame, files, written>>

\* the loop and its else clause for w: a rung exits 0 and pngquant writes the
\* staging file, or every rung exits 99 and the source is copied there, or a
\* rung exits with another code
ParLoop ==
  \E w \in Workers :
    /\ inv[w].pc = "png_loop"
    /\ LET staged == TempOutput(inv[w].tempDir, inv[w].dest)
       IN \/ \E k \in 1..Len(ladder) :
               /\ files' = Put(files, staged, Quantized(files[w], ladder[k]))
               /\ written' = written \cup {[path |-> staged, input |-> w]}
               /\ inv' = [inv EXCEPT ![w] =
                            [@ EXCEPT !.pc = "png_move", !.stage = staged]]
          \/ /\ files' = Put(files, staged, files[w])
             /\ written' = written \cup {[path |-> staged, input |-> w]}
             /\ inv' = [inv EXCEPT ![w] =
                          [@ EXCEPT !.pc = "png_move", !.stage = staged]]
          \/ /\ inv' = [inv EXCEPT ![w] = [@ EXCEPT !.pc = "png_finally"]]
             /\ UNCHANGED <<files, written>>
    /\ UNCHANGED <<parFrame, dirs, tmpCount>>

\* os.makedirs and shutil.move(temp_output, output_path) for w
ParMove ==
  \E w \in Workers :
    /\ inv[w].pc = "png_move"
    /\ LET staged == TempOutput(inv[w].tempDir, inv[w].dest)
       IN IF OutputProduced(files, staged)
            THEN /\ dirs' = Makedirs(dirs, Dirname(inv[w].dest))
                 /\ files' = Move(files, staged, inv[w].dest)
                 /\ written' = written \cup {[path |-> inv[w].dest,
                                              input |-> w]}
                 /\ inv' = [inv EXCEPT ![w] =
                              [@ EXCEPT !.pc = "png_finally", !.ok = TRUE]]
            ELSE /\ inv' = [inv EXCEPT ![w] = [@ EXCEPT !.pc = "png_finally"]]
                 /\ UNCHANGED <<files, dirs, written>>
    /\ UNCHANGED <<parFrame, tmpCount>>

\* the finally clause for w, then the return to the loop body
ParFinally ==
  \E w \in Workers :
    /\ inv[w].pc = "png_finally"
    /\ files' = RmtreeFiles(files, inv[w].tempDir)
    /\ dirs' = RmtreeDirs(dirs, inv[w].tempDir)
    /\ inv' = [inv EXCEPT ![w] =
                 [@ EXCEPT !.pc = IF mode = "replace"
                                     /\ ReplaceOriginal(inv[w].ok)
                                  THEN "rep_move" ELSE "done"]]
    /\ UNCHANGED <<parFrame, tmpCount, written>>

\* compress_jpeg for w: os.makedirs, then cjpeg with -outfile output_path
ParJpeg ==
  \E w \in Workers :
    /\ inv[w].pc = "idle"
    /\ ~IsPng(Basename(w))
    /\ IsJpeg(Basename(w))
    /\ LET output_path == OutputFile(Base, w)
       IN /\ dirs' = Makedirs(dirs, Dirname(output_path))
          /\ \E code \in {0, 1} :
               /\ files' = Put(files, output_path,
                               IF code = 0 THEN Encoded(files[w])
                               ELSE Truncated(Encoded(files[w])))
               /\ written' = written \cup {[path |-> output_path,
                                            input |-> w]}
               /\ inv' = [inv EXCEPT ![w] =
                            [@ EXCEPT !.dest = output_path,
                                      !.ok = (code = 0),
                                      !.pc = IF mode = "replace"
                                                /\ ReplaceOriginal(code = 0)
                                             THEN "rep_move" ELSE "done"]]
    /\ UNCHANGED <<parFrame, tmpCount>>

\* shutil.move(temp_file, input_file) for w
ParReplace ==
  \E w \in Workers :
    /\ inv[w].pc = "rep_move"
    /\ IF inv[w].dest \in DOMAIN files
         THEN /\ files' = Move(files, inv[w].dest, w)
              /\ written' = written \cup {[path |-> w, input |-> w]}
         ELSE UNCHANGED <<files, written>>
    /\ inv' = [inv EXCEPT ![w] = [@ EXCEPT !.pc = "done"]]
    /\ UNCHANGED <<parFrame, dirs, tmpCount>>

NextPar ==
  \/ ParStartPng
  \/ ParLoop
  \/ ParMove
  \/ ParFinally
  \/ ParJpeg
  \/ ParReplace

SpecPar == InitPar /\ [][NextPar]_vars

\* C15: no two invocations ever write the same path below the temp
\* directory, and a staged file waiting to be moved is still there and still
\* holds the output of its own invocation.
C15_PrivateStaging ==
  /\ \A w1, w2 \in written :
       (w1.path = w2.path /\ IsUnder(w1.path, TmpRoot)) => w1.input = w2.input
  /\ \A w \in DOMAIN inv :
       /\ inv[w].pc = "png_move" =>
            /\ inv[w].stage \in DOMAIN files
            /\ files[inv[w].stage].data = orig[w].data
       /\ inv[w].pc = "rep_move" =>
            /\ inv[w].dest \in DOMAIN files
            /\ files[inv[w].dest].data = orig[w].data

\* in/a/x.PNG and in/b/x.PNG are both staged and waiting to be moved
C15_Witness ==
  /\ DOMAIN inv = Workers
  /\ inv[XPath].pc = "png_move"
  /\ inv[BPath].pc = "png_move"
  /\ inv[XPath].stage # inv[BPath].stage
  /\ Basename(inv[XPath].stage) = Basename(inv[BPath].stage)

====
